---- MODULE Spec2Model ----
(***************************************************************************)
(* The users store of the editor UI (packages/editor-ui/src/stores/        *)
(* users.store.ts) as a state machine.                                     *)
(*                                                                         *)
(* A user record is a function from the names of the fields it has to      *)
(* their values (a JavaScript object: a field may be absent).  Every       *)
(* asynchronous action is split where the code awaits: the call step runs  *)
(* the code up to the await and issues the API request, the resolved step  *)
(* runs the code after the await in one uninterrupted step, and ApiFails   *)
(* is the awaited promise rejecting.                                       *)
(***************************************************************************)
EXTENDS Naturals, Sequences, FiniteSets

VARIABLES
    initialized,           \* state.initialized
    currentUserId,         \* state.currentUserId (Null when null)
    users,                 \* state.users: id -> user record
    currentUserCloudInfo,  \* state.currentUserCloudInfo (Null when null)
    pending,               \* API requests in flight, in the order they were issued
    out,                   \* what the step taken last did besides writing the state:
                           \* whether it raised to its caller, and the calls it made
                           \* to the API client and the other stores, in order
    last,                  \* history: the step taken last (action, phase, input)
    initCookieCalls        \* history: loginCurrentUser requests issued by initialize()

vars == <<initialized, currentUserId, users, currentUserCloudInfo, pending, out, last,
          initCookieCalls>>

store == <<initialized, currentUserId, users, currentUserCloudInfo>>

\* ---------------------------------------------------------------- bounds
MaxPending == 1      \* requests in flight at once, all actions together (Spec)
MaxOverlap == 2      \* requests in flight at once (SpecSession, SpecSettings)
MaxInitCalls == 2    \* initialize() calls that reach the API (SpecSession)

\* ---------------------------------------------------------------- values
Null == "null"
Undefined == << >>
ROLE_Owner == "owner"
EmptyRec == [f \in {} |-> TRUE]
Ids == {"u1", "u2"}
CloudVals == {"cloud1"}
AnswersVals == {"a1"}

Has(u, f) == f \in DOMAIN u

\* JavaScript truthiness of a boolean field: absent and false are falsy
TruthyBool(u, f) == f \in DOMAIN u /\ u[f] = TRUE

\* JavaScript truthiness of a string field: absent and '' are falsy
TruthyStr(u, f) == f \in DOMAIN u /\ u[f] # ""

\* {...a, ...b}
Spread(a, b) ==
    [f \in DOMAIN a \cup DOMAIN b |-> IF f \in DOMAIN b THEN b[f] ELSE a[f]]

\* {...m, [k]: v}
Put(m, k, v) == [x \in DOMAIN m \cup {k} |-> IF x = k THEN v ELSE m[x]]

\* const { [k]: _, ...rest } = m
Without(m, k) == [x \in DOMAIN m \ {k} |-> m[x]]

\* ---------------------------------------------------------------- predicates
isDefaultUserNoPending(user) ==
    /\ Has(user, "globalRole")
    /\ user["globalRole"] = ROLE_Owner

isDefaultUser(user) ==
    /\ TruthyBool(user, "isPending")
    /\ Has(user, "globalRole")
    /\ user["globalRole"] = ROLE_Owner

isPendingUser(user) == TruthyBool(user, "isPending")

isInstanceOwner(user) ==
    /\ Has(user, "globalRole")
    /\ user["globalRole"] = ROLE_Owner

\* `${updatedUser.firstName} ${updatedUser.lastName || ''}`
FullName(updatedUser) ==
    <<updatedUser["firstName"], " ",
      IF TruthyStr(updatedUser, "lastName") THEN updatedUser["lastName"] ELSE "">>

\* the body of addUsers' forEach: the record written for one response
MergedUserFromPrev(prevUser, userResponse) ==
    LET updatedUser == Spread(prevUser, userResponse)
    IN  Spread(updatedUser,
               [fullName |-> IF TruthyStr(userResponse, "firstName")
                             THEN FullName(updatedUser) ELSE Undefined,
                isDefaultUser |-> isDefaultUser(prevUser),
                isPendingUser |-> isPendingUser(prevUser),
                isOwner |-> isInstanceOwner(prevUser)])

MergedUser(prevUser, userResponse) ==
    LET updatedUser == Spread(prevUser, userResponse)
    IN  Spread(updatedUser,
               [fullName |-> IF TruthyStr(userResponse, "firstName")
                             THEN FullName(updatedUser) ELSE Undefined,
                isDefaultUser |-> isDefaultUser(updatedUser),
                isPendingUser |-> isPendingUser(updatedUser),
                isOwner |-> isInstanceOwner(updatedUser)])

addUsersNoWrite(us, rs) == us

RECURSIVE addUsers(_, _)
addUsers(us, rs) ==
    IF rs = << >> THEN us
    ELSE LET userResponse == Head(rs)
             prevUser == IF userResponse["id"] \in DOMAIN us
                         THEN us[userResponse["id"]] ELSE EmptyRec
             user == MergedUser(prevUser, userResponse)
         IN  addUsers(Put(us, user["id"], user), Tail(rs))

deleteUserById(us, userId) == Without(us, userId)

\* the currentUser getter: null without a current id, undefined when the id keys
\* no record; both are falsy, HasCurrentUser is its truthiness
HasCurrentUser == currentUserId # Null /\ currentUserId \in DOMAIN users
currentUser == users[currentUserId]

\* ---------------------------------------------------------------- steps
NoCalls == << >>
Returned(calls) == [raised |-> FALSE, calls |-> calls]
Raised == [raised |-> TRUE, calls |-> NoCalls]

\* An API response that is null (the login endpoints answer so when there is no
\* session) is written NoUser; a user response always has an id.
NoUser == EmptyRec
IsNoUser(user) == DOMAIN user = {}

\* user.featureFlags
FeatureFlags(user) == IF Has(user, "featureFlags") THEN user["featureFlags"] ELSE "undefined"

Request(op, arg) == [op |-> op, arg |-> arg, overtaken |-> FALSE]

\* the code up to the await: the request goes out
Issue(op, arg) ==
    /\ pending' = Append(pending, Request(op, arg))
    /\ out' = Returned(<<<<"api", op>>>>)
    /\ UNCHANGED store

Awaiting(i, op) == i \in 1..Len(pending) /\ pending[i].op = op

\* the request at position i settles: it leaves pending
Settled(i) ==
    [j \in 1..(Len(pending) - 1) |-> pending[IF j < i THEN j ELSE j + 1]]

\* History: when a settings request resolves, the requests for the same record that
\* were issued before it and are still in flight are marked as overtaken.
SettledOvertaking(i) ==
    [j \in 1..(Len(pending) - 1) |->
        LET e == pending[IF j < i THEN j ELSE j + 1]
        IN  IF j < i /\ e.op = pending[i].op /\ e.arg = pending[i].arg
            THEN [e EXCEPT !.overtaken = TRUE]
            ELSE e]

\* a caller of the awaited action resumes later, in a step of its own
Continue(i, op, arg) == [pending EXCEPT ![i] = Request(op, arg)]

\* ---------------------------------------------------------------- initialize
InitializeNoGuard ==
    /\ pending' = Append(pending, Request("loginWithCookie", "initialize"))
    /\ out' = Returned(<<<<"api", "loginWithCookie">>>>)
    /\ UNCHANGED store

Initialize ==
    IF initialized
    THEN /\ out' = Returned(NoCalls)
         /\ UNCHANGED <<store, pending>>
    ELSE /\ pending' = Append(pending, Request("loginWithCookie", "initialize"))
         /\ out' = Returned(<<<<"api", "loginWithCookie">>>>)
         /\ UNCHANGED store

\* await this.loginWithCookie() returned: this.initialized = true
InitializeThen(i) ==
    /\ Awaiting(i, "initialize")
    /\ pending[i].arg = "then"
    /\ initialized' = TRUE
    /\ pending' = Settled(i)
    /\ out' = Returned(NoCalls)
    /\ UNCHANGED <<currentUserId, users, currentUserCloudInfo>>

InitializeCatchRethrows(i) ==
    /\ Awaiting(i, "initialize")
    /\ pending[i].arg = "catch"
    /\ pending' = Settled(i)
    /\ out' = Raised
    /\ UNCHANGED store

\* await this.loginWithCookie() threw: catch (e) {}
InitializeCatch(i) ==
    /\ Awaiting(i, "initialize")
    /\ pending[i].arg = "catch"
    /\ pending' = Settled(i)
    /\ out' = Returned(NoCalls)
    /\ UNCHANGED store

\* ---------------------------------------------------------------- synchronous actions
AddUsers(rs) ==
    /\ users' = addUsers(users, rs)
    /\ out' = Returned(NoCalls)
    /\ UNCHANGED <<initialized, currentUserId, currentUserCloudInfo, pending>>

DeleteUserById(userId) ==
    /\ users' = deleteUserById(users, userId)
    /\ out' = Returned(NoCalls)
    /\ UNCHANGED <<initialized, currentUserId, currentUserCloudInfo, pending>>

SetPersonalizationAnswers(answers) ==
    /\ users' = IF HasCurrentUser
                THEN Put(users, currentUser["id"],
                         Spread(currentUser, [personalizationAnswers |-> answers]))
                ELSE users
    /\ out' = Returned(NoCalls)
    /\ UNCHANGED <<initialized, currentUserId, currentUserCloudInfo, pending>>

\* ---------------------------------------------------------------- session actions
LoginWithCookie == Issue("loginWithCookie", "")

LoginWithCookieResolved(i, user) ==
    /\ Awaiting(i, "loginWithCookie")
    /\ IF IsNoUser(user)
       THEN /\ out' = Returned(NoCalls)
            /\ UNCHANGED <<users, currentUserId>>
       ELSE /\ users' = addUsers(users, <<user>>)
            /\ currentUserId' = user["id"]
            /\ out' = Returned(<<<<"posthog.init", FeatureFlags(user)>>>>)
    /\ pending' = IF pending[i].arg = "initialize"
                  THEN Continue(i, "initialize", "then")
                  ELSE Settled(i)
    /\ UNCHANGED <<initialized, currentUserCloudInfo>>

LoginWithCreds == Issue("loginWithCreds", "")

LoginWithCredsNoAnalytics(i, user) ==
    /\ Awaiting(i, "loginWithCreds")
    /\ IF IsNoUser(user)
       THEN UNCHANGED <<users, currentUserId>>
       ELSE /\ users' = addUsers(users, <<user>>)
            /\ currentUserId' = user["id"]
    /\ out' = Returned(NoCalls)
    /\ pending' = Settled(i)
    /\ UNCHANGED <<initialized, currentUserCloudInfo>>

LoginWithCredsResolved(i, user) ==
    /\ Awaiting(i, "loginWithCreds")
    /\ IF IsNoUser(user)
       THEN /\ out' = Returned(NoCalls)
            /\ UNCHANGED <<users, currentUserId>>
       ELSE /\ users' = addUsers(users, <<user>>)
            /\ currentUserId' = user["id"]
            /\ out' = Returned(<<<<"posthog.init", FeatureFlags(user)>>>>)
    /\ pending' = Settled(i)
    /\ UNCHANGED <<initialized, currentUserCloudInfo>>

LogoutClearsFirst ==
    /\ pending' = Append(pending, Request("logout", ""))
    /\ currentUserId' = Null
    /\ out' = Returned(<<<<"api", "logout">>>>)
    /\ UNCHANGED <<initialized, users, currentUserCloudInfo>>

Logout == Issue("logout", "")

LogoutResolvedResetsInitialized(i) ==
    /\ Awaiting(i, "logout")
    /\ currentUserId' = Null
    /\ currentUserCloudInfo' = Null
    /\ initialized' = FALSE
    /\ out' = Returned(<<<<"cloudPlan.reset", "">>, <<"posthog.reset", "">>,
                         <<"ui.clearBannerStack", "">>>>)
    /\ pending' = Settled(i)
    /\ UNCHANGED users

LogoutResolved(i) ==
    /\ Awaiting(i, "logout")
    /\ currentUserId' = Null
    /\ currentUserCloudInfo' = Null
    /\ out' = Returned(<<<<"cloudPlan.reset", "">>, <<"posthog.reset", "">>,
                         <<"ui.clearBannerStack", "">>>>)
    /\ pending' = Settled(i)
    /\ UNCHANGED <<initialized, users>>

CreateOwner == Issue("createOwner", "")

CreateOwnerResolved(i, user) ==
    /\ Awaiting(i, "createOwner")
    /\ IF IsNoUser(user)
       THEN /\ out' = Returned(NoCalls)
            /\ UNCHANGED <<users, currentUserId>>
       ELSE /\ users' = addUsers(users, <<user>>)
            /\ currentUserId' = user["id"]
            /\ out' = Returned(<<<<"settings.stopShowingSetupPage", "">>,
                                 <<"posthog.init", FeatureFlags(user)>>>>)
    /\ pending' = Settled(i)
    /\ UNCHANGED <<initialized, currentUserCloudInfo>>

AcceptInvitation == Issue("acceptInvitation", "")

AcceptInvitationResolved(i, user) ==
    /\ Awaiting(i, "acceptInvitation")
    /\ IF IsNoUser(user)
       THEN /\ out' = Returned(NoCalls)
            /\ UNCHANGED <<users, currentUserId>>
       ELSE /\ users' = addUsers(users, <<user>>)
            /\ currentUserId' = user["id"]
            /\ out' = Returned(<<<<"posthog.init", FeatureFlags(user)>>>>)
    /\ pending' = Settled(i)
    /\ UNCHANGED <<initialized, currentUserCloudInfo>>

FetchUserCloudAccount == Issue("fetchUserCloudAccount", "")

FetchUserCloudAccountResolved(i, cloudUser) ==
    /\ Awaiting(i, "fetchUserCloudAccount")
    /\ currentUserCloudInfo' = cloudUser
    /\ out' = Returned(NoCalls)
    /\ pending' = Settled(i)
    /\ UNCHANGED <<initialized, currentUserId, users>>

\* The awaited API call of request i fails.  No action but initialize catches it
\* (fetchUserCloudAccount catches and throws a new Error): the action raises, and
\* the code after its await does not run.
ApiFails(i) ==
    /\ i \in 1..Len(pending)
    /\ pending[i].op # "initialize"
    /\ pending' = IF pending[i].op = "loginWithCookie" /\ pending[i].arg = "initialize"
                  THEN Continue(i, "initialize", "catch")
                  ELSE Settled(i)
    /\ out' = Raised
    /\ UNCHANGED store

\* ---------------------------------------------------------------- roster actions
UpdateUser == Issue("updateUser", "")

UpdateUserResolved(i, user) ==
    /\ Awaiting(i, "updateUser")
    /\ users' = addUsers(users, <<user>>)
    /\ out' = Returned(NoCalls)
    /\ pending' = Settled(i)
    /\ UNCHANGED <<initialized, currentUserId, currentUserCloudInfo>>

\* this.users[userId].settings = updatedSettings; this.addUsers([this.users[userId]])
WithSettingsMerged(us, userId, updatedSettings) ==
    LET old == IF Has(us[userId], "settings") THEN us[userId]["settings"] ELSE EmptyRec
        user == Put(us[userId], "settings", Spread(old, updatedSettings))
    IN  addUsers(Put(us, userId, user), <<user>>)

WithSettings(us, userId, updatedSettings) ==
    LET user == Put(us[userId], "settings", updatedSettings)
    IN  addUsers(Put(us, userId, user), <<user>>)

UpdateUserSettings == Issue("updateUserSettings", "")

UpdateUserSettingsResolved(i, updatedSettings) ==
    /\ Awaiting(i, "updateUserSettings")
    /\ users' = IF HasCurrentUser
                THEN WithSettings(users, currentUserId, updatedSettings)
                ELSE users
    /\ out' = Returned(NoCalls)
    /\ pending' = SettledOvertaking(i)
    /\ UNCHANGED <<initialized, currentUserId, currentUserCloudInfo>>

UpdateOtherUserSettings(userId) == Issue("updateOtherUserSettings", userId)

\* this.users[userId] is undefined for an id that keys no record: the assignment
\* to its settings throws a TypeError
UpdateOtherUserSettingsResolved(i, updatedSettings) ==
    /\ Awaiting(i, "updateOtherUserSettings")
    /\ IF pending[i].arg \in DOMAIN users
       THEN /\ users' = WithSettings(users, pending[i].arg, updatedSettings)
            /\ out' = Returned(NoCalls)
       ELSE /\ users' = users
            /\ out' = Raised
    /\ pending' = SettledOvertaking(i)
    /\ UNCHANGED <<initialized, currentUserId, currentUserCloudInfo>>

FetchUsers == Issue("fetchUsers", "")

FetchUsersResolved(i, rs) ==
    /\ Awaiting(i, "fetchUsers")
    /\ users' = addUsers(users, rs)
    /\ out' = Returned(NoCalls)
    /\ pending' = Settled(i)
    /\ UNCHANGED <<initialized, currentUserId, currentUserCloudInfo>>

InviteUsers == Issue("inviteUsers", "")

\* invited: the user stub of each IInviteResponse
InviteUsersResolved(i, invited) ==
    /\ Awaiting(i, "inviteUsers")
    /\ users' = addUsers(users, [k \in 1..Len(invited) |->
                                    Spread([isPending |-> TRUE], invited[k])])
    /\ out' = Returned(NoCalls)
    /\ pending' = Settled(i)
    /\ UNCHANGED <<initialized, currentUserId, currentUserCloudInfo>>

\* currentUser.mfaEnabled = value, when there is a current user
WithMfa(value) ==
    IF HasCurrentUser
    THEN Put(users, currentUserId, Put(currentUser, "mfaEnabled", value))
    ELSE users

EnableMfa == Issue("enableMfa", "")

EnableMfaResolved(i) ==
    /\ Awaiting(i, "enableMfa")
    /\ users' = WithMfa(TRUE)
    /\ out' = Returned(NoCalls)
    /\ pending' = Settled(i)
    /\ UNCHANGED <<initialized, currentUserId, currentUserCloudInfo>>

DisabledMfa == Issue("disabledMfa", "")

DisabledMfaResolved(i) ==
    /\ Awaiting(i, "disabledMfa")
    /\ users' = WithMfa(FALSE)
    /\ out' = Returned(NoCalls)
    /\ pending' = Settled(i)
    /\ UNCHANGED <<initialized, currentUserId, currentUserCloudInfo>>

\* ---------------------------------------------------------------- inputs
Owner ==
    [id |-> "u1", firstName |-> "Ann", lastName |-> "Lee", isPending |-> FALSE,
     globalRole |-> ROLE_Owner, featureFlags |-> "ff1"]
DefaultOwner == [id |-> "u1", isPending |-> TRUE, globalRole |-> ROLE_Owner]
Member == [id |-> "u2", firstName |-> "Bob", isPending |-> FALSE, globalRole |-> "member"]
InviteStub == [id |-> "u2", email |-> "bob@x"]

LoginUsers == {Owner, Member}
LoginResponses == LoginUsers \cup {NoUser}
UserLists == {<<Owner>>, <<DefaultOwner>>, <<Member>>, <<DefaultOwner, Member>>, << >>}
InviteLists == {<<InviteStub>>}
Activated == [userActivated |-> TRUE]
FirstWorkflow == [firstSuccessfulWorkflowId |-> "w1"]
SettingsVals == {Activated, FirstWorkflow}

\* ---------------------------------------------------------------- specifications
NoStep == [op |-> "", phase |-> "", arg |-> ""]
Label(op, phase, arg) == [op |-> op, phase |-> phase, arg |-> arg]

Init ==
    /\ initialized = FALSE
    /\ currentUserId = Null
    /\ users = EmptyRec
    /\ currentUserCloudInfo = Null
    /\ pending = << >>
    /\ out = Returned(NoCalls)
    /\ last = NoStep
    /\ initCookieCalls = 0

\* Spec: every action that writes users or currentUserId, with up to MaxPending
\* requests in flight; the history variables are not kept.  (initialize and
\* fetchUserCloudAccount, which write neither, are in SpecSession.)
Unlabelled == last' = NoStep /\ initCookieCalls' = initCookieCalls
Free == Len(pending) < MaxPending
Slots == 1..Len(pending)

Next ==
    \/ Free /\ LoginWithCookie /\ Unlabelled
    \/ Free /\ LoginWithCreds /\ Unlabelled
    \/ Free /\ Logout /\ Unlabelled
    \/ Free /\ CreateOwner /\ Unlabelled
    \/ Free /\ AcceptInvitation /\ Unlabelled
    \/ Free /\ UpdateUser /\ Unlabelled
    \/ Free /\ UpdateUserSettings /\ Unlabelled
    \/ \E userId \in Ids : Free /\ UpdateOtherUserSettings(userId) /\ Unlabelled
    \/ Free /\ FetchUsers /\ Unlabelled
    \/ Free /\ InviteUsers /\ Unlabelled
    \/ Free /\ EnableMfa /\ Unlabelled
    \/ Free /\ DisabledMfa /\ Unlabelled
    \/ \E i \in Slots : ApiFails(i) /\ Unlabelled
    \/ \E i \in Slots, user \in {Owner, NoUser} :
            LoginWithCookieResolved(i, user) /\ Unlabelled
    \/ \E i \in Slots, user \in {Owner, NoUser} :
            LoginWithCredsResolved(i, user) /\ Unlabelled
    \/ \E i \in Slots, user \in {Owner, NoUser} :
            CreateOwnerResolved(i, user) /\ Unlabelled
    \/ \E i \in Slots, user \in {Owner, NoUser} :
            AcceptInvitationResolved(i, user) /\ Unlabelled
    \/ \E i \in Slots : LogoutResolved(i) /\ Unlabelled
    \/ \E i \in Slots, user \in {Owner, Member} : UpdateUserResolved(i, user) /\ Unlabelled
    \/ \E i \in Slots : UpdateUserSettingsResolved(i, Activated) /\ Unlabelled
    \/ \E i \in Slots : UpdateOtherUserSettingsResolved(i, Activated) /\ Unlabelled
    \/ \E i \in Slots, rs \in UserLists : FetchUsersResolved(i, rs) /\ Unlabelled
    \/ \E i \in Slots, invited \in InviteLists : InviteUsersResolved(i, invited) /\ Unlabelled
    \/ \E i \in Slots : EnableMfaResolved(i) /\ Unlabelled
    \/ \E i \in Slots : DisabledMfaResolved(i) /\ Unlabelled
    \/ \E rs \in UserLists : AddUsers(rs) /\ Unlabelled
    \/ \E userId \in Ids : DeleteUserById(userId) /\ Unlabelled
    \/ \E answers \in AnswersVals : SetPersonalizationAnswers(answers) /\ Unlabelled

Spec == Init /\ [][Next]_vars

\* SpecSession: the actions that write currentUserId, initialized and
\* currentUserCloudInfo, with up to MaxOverlap requests in flight; the history
\* variables name each step and count the API calls initialize() makes.
Track(op, phase, arg) == last' = Label(op, phase, arg) /\ initCookieCalls' = initCookieCalls
Room == Len(pending) < MaxOverlap
LoginOps == {"loginWithCookie", "loginWithCreds", "createOwner", "acceptInvitation"}

SessionNext ==
    \/ /\ initialized \/ (Room /\ initCookieCalls < MaxInitCalls)
       /\ Initialize
       /\ last' = Label("initialize", "call", IF initialized THEN "guarded" ELSE "issued")
       /\ initCookieCalls' = initCookieCalls + Len(pending') - Len(pending)
    \/ Room /\ LoginWithCookie /\ Track("loginWithCookie", "call", "")
    \/ Room /\ LoginWithCreds /\ Track("loginWithCreds", "call", "")
    \/ Room /\ CreateOwner /\ Track("createOwner", "call", "")
    \/ Room /\ AcceptInvitation /\ Track("acceptInvitation", "call", "")
    \/ Room /\ Logout /\ Track("logout", "call", "")
    \/ Room /\ FetchUserCloudAccount /\ Track("fetchUserCloudAccount", "call", "")
    \/ \E i \in Slots : InitializeThen(i) /\ Track("initialize", "returned", "then")
    \/ \E i \in Slots : InitializeCatch(i) /\ Track("initialize", "returned", "catch")
    \/ \E i \in Slots : ApiFails(i) /\ Track(pending[i].op, "rejected", pending[i].arg)
    \/ \E i \in Slots, user \in LoginResponses :
            LoginWithCookieResolved(i, user) /\ Track("loginWithCookie", "resolved", user)
    \/ \E i \in Slots, user \in LoginResponses :
            LoginWithCredsResolved(i, user) /\ Track("loginWithCreds", "resolved", user)
    \/ \E i \in Slots, user \in LoginResponses :
            CreateOwnerResolved(i, user) /\ Track("createOwner", "resolved", user)
    \/ \E i \in Slots, user \in LoginResponses :
            AcceptInvitationResolved(i, user) /\ Track("acceptInvitation", "resolved", user)
    \/ \E i \in Slots : LogoutResolved(i) /\ Track("logout", "resolved", "")
    \/ \E i \in Slots, cloudUser \in CloudVals :
            FetchUserCloudAccountResolved(i, cloudUser)
            /\ Track("fetchUserCloudAccount", "resolved", cloudUser)
    \/ \E userId \in Ids : DeleteUserById(userId) /\ Track("deleteUserById", "sync", userId)

SpecSession == Init /\ [][SessionNext]_vars

\* ---------------------------------------------------------------- session claims
LoginResolved == last.op \in LoginOps /\ last.phase = "resolved"
LoginResolvedNext == last'.op \in LoginOps /\ last'.phase = "resolved"

\* C1: right after loginWithCookie, loginWithCreds, createOwner or acceptInvitation
\* has assigned currentUserId (its response was not empty), currentUserId is the
\* response's id and keys a record of users: the merge and the assignment are one
\* uninterrupted step.
C1_CurrentUserIsKeyed ==
    (LoginResolved /\ ~IsNoUser(last.arg))
        => /\ currentUserId # Null
           /\ currentUserId \in DOMAIN users
           /\ users[currentUserId]["id"] = currentUserId

C1_Witness ==
    /\ last.op = "createOwner"
    /\ last.phase = "resolved"
    /\ ~IsNoUser(last.arg)
    /\ currentUserId = "u1"
    /\ Len(pending) > 0

\* C2: a login action whose response is empty completes without raising, leaves
\* users, currentUserId, initialized and currentUserCloudInfo as they were and does
\* not call the analytics initializer; one whose response is a user leaves every
\* field of the response in the record under its id, leaves the other records as
\* they were, makes the id current and ends by calling the analytics initializer
\* with the response's feature flags.
C2_LoginOutcome ==
    [][LoginResolvedNext =>
        LET user == last'.arg
        IN  IF IsNoUser(user)
            THEN /\ ~out'.raised
                 /\ out'.calls = << >>
                 /\ UNCHANGED <<users, currentUserId, initialized, currentUserCloudInfo>>
            ELSE /\ ~out'.raised
                 /\ user["id"] \in DOMAIN users'
                 /\ \A f \in DOMAIN user : users'[user["id"]][f] = user[f]
                 /\ \A id \in DOMAIN users \ {user["id"]} :
                        id \in DOMAIN users' /\ users'[id] = users[id]
                 /\ currentUserId' = user["id"]
                 /\ Len(out'.calls) > 0
                 /\ out'.calls[Len(out'.calls)] =
                        <<"posthog.init",
                          IF "featureFlags" \in DOMAIN user
                          THEN user["featureFlags"] ELSE "undefined">>
    ]_vars

C2_Witness ==
    /\ last.op = "loginWithCreds"
    /\ last.phase = "resolved"
    /\ ~IsNoUser(last.arg)
    /\ last.arg["id"] = "u2"
    /\ "u1" \in DOMAIN users
    /\ currentUserId = "u2"
    /\ out.calls = <<<<"posthog.init", "undefined">>>>

\* C3: logout calls the API before it clears anything: neither the call nor its
\* failure changes currentUserId or currentUserCloudInfo or resets the cloud plan,
\* the analytics or the banners, and the failure is raised to the caller; when the
\* call succeeds, currentUserId and currentUserCloudInfo are both null afterwards.
C3_LogoutOrder ==
    [][last'.op = "logout" =>
        /\ last'.phase = "call" =>
              /\ UNCHANGED <<currentUserId, currentUserCloudInfo>>
              /\ out'.calls = <<<<"api", "logout">>>>
        /\ last'.phase = "rejected" =>
              /\ out'.raised
              /\ out'.calls = << >>
              /\ UNCHANGED <<currentUserId, currentUserCloudInfo>>
        /\ last'.phase = "resolved" =>
              /\ ~out'.raised
              /\ currentUserId' = Null
              /\ currentUserCloudInfo' = Null
    ]_vars

C3_Witness ==
    /\ last.op = "logout"
    /\ last.phase = "rejected"
    /\ out.raised
    /\ currentUserId # Null
    /\ currentUserCloudInfo # Null

\* C4: initialize() never raises to its caller: when its cookie-login API call
\* fails, neither the failure nor the catch changes initialized, users or
\* currentUserId, and initialize() returns normally.
InitializeFails ==
    \/ last'.op = "loginWithCookie" /\ last'.phase = "rejected" /\ last'.arg = "initialize"
    \/ last'.op = "initialize" /\ last'.phase = "returned" /\ last'.arg = "catch"

C4_InitializeSwallows ==
    [][/\ last'.op = "initialize" => ~out'.raised
       /\ InitializeFails => UNCHANGED <<initialized, users, currentUserId>>
    ]_vars

C4_Witness ==
    /\ last.op = "initialize"
    /\ last.phase = "returned"
    /\ last.arg = "catch"
    /\ ~out.raised
    /\ ~initialized
    /\ currentUserId # Null

\* C5: initialized never goes back to false, whatever the store does (logout and
\* later logins included), and an initialize() call made while it is true returns
\* without calling the API and without changing the state.
C5_InitializedOneShot ==
    [][/\ initialized => initialized'
       /\ (initialized /\ last'.op = "initialize" /\ last'.phase = "call") =>
              /\ UNCHANGED <<store, pending, initCookieCalls>>
              /\ out'.calls = << >>
              /\ ~out'.raised
    ]_vars

C5_Witness ==
    /\ initialized
    /\ last.op = "initialize"
    /\ last.phase = "call"
    /\ last.arg = "guarded"
    /\ currentUserId = Null
    /\ DOMAIN users # {}

\* C8 as stated: over any number of initialize() calls, overlapping or not, failed
\* or not, the cookie-login API is called at most once.
C8_AtMostOneCookieCall == initCookieCalls <= 1

\* C8 as amended: the guard stops the repetition only once an attempt has
\* succeeded: an initialize() call made while initialized is true does not call
\* the cookie-login API, and one made while it is false calls it once, whether or
\* not an earlier attempt is still in flight or has failed.
C8_GuardedOnceInitialized ==
    [][(last'.op = "initialize" /\ last'.phase = "call") =>
          initCookieCalls' = initCookieCalls + (IF initialized THEN 0 ELSE 1)
    ]_vars

C8_Witness ==
    /\ initCookieCalls = 2
    /\ initialized
    /\ last.op = "initialize"
    /\ last.phase = "call"
    /\ last.arg = "guarded"

\* ---------------------------------------------------------------- settings
\* SpecSettings: logins, logout, removal and the two settings updates, with up to
\* MaxOverlap requests in flight.  The label of a resolved settings update holds the
\* settings the API returned, the settings the record had before (NoSettings when
\* it had none) and whether a request issued later has resolved before this one.
NoSettings == EmptyRec
SettingsOf(us, userId) ==
    IF userId \in DOMAIN us /\ Has(us[userId], "settings")
    THEN us[userId]["settings"] ELSE NoSettings

SettingsLabel(i, userId, updatedSettings) ==
    [settings |-> updatedSettings, userId |-> userId,
     before |-> SettingsOf(users, userId), overtaken |-> pending[i].overtaken]

SettingsNext ==
    \/ Room /\ LoginWithCreds /\ Track("loginWithCreds", "call", "")
    \/ Room /\ Logout /\ Track("logout", "call", "")
    \/ Room /\ UpdateUserSettings /\ Track("updateUserSettings", "call", "")
    \/ \E userId \in Ids :
            Room /\ UpdateOtherUserSettings(userId)
            /\ Track("updateOtherUserSettings", "call", userId)
    \/ \E i \in Slots : ApiFails(i) /\ Track(pending[i].op, "rejected", pending[i].arg)
    \/ \E i \in Slots, user \in LoginResponses :
            LoginWithCredsResolved(i, user) /\ Track("loginWithCreds", "resolved", user)
    \/ \E i \in Slots : LogoutResolved(i) /\ Track("logout", "resolved", "")
    \/ \E i \in Slots, updatedSettings \in SettingsVals :
            UpdateUserSettingsResolved(i, updatedSettings)
            /\ Track("updateUserSettings", "resolved",
                     SettingsLabel(i, currentUserId, updatedSettings))
    \/ \E i \in Slots, updatedSettings \in SettingsVals :
            UpdateOtherUserSettingsResolved(i, updatedSettings)
            /\ Track("updateOtherUserSettings", "resolved",
                     SettingsLabel(i, pending[i].arg, updatedSettings))
    \/ \E userId \in Ids : DeleteUserById(userId) /\ Track("deleteUserById", "sync", userId)

SpecSettings == Init /\ [][SettingsNext]_vars

SettingsResolved ==
    /\ last.op \in {"updateUserSettings", "updateOtherUserSettings"}
    /\ last.phase = "resolved"

\* C10: when a settings update resolves and its record exists, the record's settings
\* are exactly the settings that response returned, whatever they were before and
\* whether or not the request was issued before one that has already resolved:
\* the response that resolves last wins, whole.
C10_LastResolvedWins ==
    (SettingsResolved /\ last.arg.userId \in DOMAIN users)
        => /\ ~out.raised
           /\ Has(users[last.arg.userId], "settings")
           /\ users[last.arg.userId]["settings"] = last.arg.settings

C10_Witness ==
    /\ last.op = "updateUserSettings"
    /\ last.phase = "resolved"
    /\ last.arg.overtaken
    /\ last.arg.before # NoSettings
    /\ last.arg.before # last.arg.settings
    /\ HasCurrentUser
    /\ currentUser["settings"] = last.arg.settings

\* ---------------------------------------------------------------- merge
\* SpecMerge: addUsers and deleteUserById alone, addUsers on every response that
\* has or lacks each of firstName, lastName, isPending, globalRole and settings.
Opt(f, values) == {EmptyRec} \cup {[x \in {f} |-> v] : v \in values}

\* a record read back from the store and passed as a response: it carries the
\* derived fields of an earlier merge
StaleUser ==
    [id |-> "u1", isPending |-> TRUE, fullName |-> <<"Zed", " ", "">>,
     isPendingUser |-> FALSE, isDefaultUser |-> TRUE, isOwner |-> TRUE]

MergeResponses ==
    {Spread(Spread(Spread(Spread(Spread([id |-> "u1"], a), b), c), d), e) :
        a \in Opt("firstName", {"Ann", ""}),
        b \in Opt("lastName", {"Lee"}),
        c \in Opt("isPending", BOOLEAN),
        d \in Opt("globalRole", {ROLE_Owner, "member"}),
        e \in Opt("settings", {Activated})}
    \cup {Member, StaleUser}

MergeNext ==
    \/ \E r \in MergeResponses : AddUsers(<<r>>) /\ Track("addUsers", "sync", <<r>>)
    \/ \E userId \in Ids : DeleteUserById(userId) /\ Track("deleteUserById", "sync", userId)

SpecMerge == Init /\ [][MergeNext]_vars

DerivedBooleans == {"isDefaultUser", "isPendingUser", "isOwner"}

\* the fields of the record prev that the response r does not specify; the three
\* derived booleans are left out, and so is fullName when r names the user
Unspecified(prev, r) ==
    (DOMAIN prev \ (DOMAIN r \cup DerivedBooleans))
        \ (IF Has(r, "firstName") \/ Has(r, "lastName") THEN {"fullName"} ELSE {})

\* C6: addUsers on a response whose id is already in users overlays it field by
\* field: every field of the record that the response does not specify keeps its
\* value, and the records under the other ids are unchanged.
C6_FieldwiseOverlay ==
    [][last'.op = "addUsers" =>
        LET r == last'.arg[1]
        IN  r["id"] \in DOMAIN users =>
              /\ \A f \in Unspecified(users[r["id"]], r) :
                    /\ f \in DOMAIN users'[r["id"]]
                    /\ users'[r["id"]][f] = users[r["id"]][f]
              /\ \A id \in DOMAIN users \ {r["id"]} :
                    id \in DOMAIN users' /\ users'[id] = users[id]
    ]_vars

\* C7: addUsers is idempotent: right after addUsers([r]), a second addUsers([r])
\* would leave users as it is, every field of every record included.
C7_AddUsersIdempotent ==
    last.op = "addUsers" => addUsers(users, last.arg) = users

C7_Witness ==
    /\ last.op = "addUsers"
    /\ ~Has(last.arg[1], "firstName")
    /\ Has(last.arg[1], "isPending")
    /\ Has(users[last.arg[1]["id"]], "firstName")
    /\ users[last.arg[1]["id"]]["isDefaultUser"]
    /\ "u2" \in DOMAIN users

\* ---------------------------------------------------------------- derived fields
RoleIsOwner(u) == "globalRole" \in DOMAIN u /\ u["globalRole"] = "owner"
IsPendingSet(u) == "isPending" \in DOMAIN u /\ u["isPending"] = TRUE

\* C9: in every reachable state every record of users has its three derived
\* booleans equal to what its own raw fields give: isPendingUser iff isPending is
\* truthy, isOwner iff the role name is owner, isDefaultUser iff both.
C9_DerivedMatchRaw ==
    \A id \in DOMAIN users :
        LET u == users[id]
        IN  /\ DerivedBooleans \subseteq DOMAIN u
            /\ u["isPendingUser"] = IsPendingSet(u)
            /\ u["isOwner"] = RoleIsOwner(u)
            /\ u["isDefaultUser"] = (IsPendingSet(u) /\ RoleIsOwner(u))

C9_Witness ==
    /\ "u1" \in DOMAIN users
    /\ users["u1"]["isDefaultUser"]
    /\ Has(users["u1"], "mfaEnabled")
    /\ Has(users["u1"], "settings")
    /\ Has(users["u1"], "personalizationAnswers")
    /\ "u2" \in DOMAIN users
    /\ users["u2"]["isPendingUser"]
    /\ ~users["u2"]["isOwner"]

====
